---------------------------- MODULE Spec2Model ----------------------------
(***************************************************************************)
(* Model of pxr/imaging/hdx/drawTargetTask.cpp.                            *)
(*                                                                         *)
(*   - _DoesCollectionContainPath, _IsDependentOn, _SortDrawTargets and    *)
(*     _GetSortedDrawTargets (lines 116-267), as operators that compute    *)
(*     what the code computes, loop by loop;                               *)
(*   - HdxDrawTargetTask_GetResolvedDepthFunc (lines 50-84);               *)
(*   - HdxDrawTargetTask::Sync (lines 271-475): the dirty parameters and   *)
(*     render tags, the return on a failed parameter fetch, the two        *)
(*     branches of the draw-target-set cache, the publication of the       *)
(*     passes, the render pass state loop with its return at a missing     *)
(*     camera, the alpha-to-coverage flag and the dirty bits;              *)
(*   - HdxDrawTargetTask::Prepare (lines 477-490);                         *)
(*   - HdxDrawTargetTask::Execute (lines 492-557): the GL state set before *)
(*     the draw loop, the draw loop, the GL state restored after it.       *)
(*                                                                         *)
(* Of a render pass state the model keeps what Sync sets from the task's   *)
(* parameters and the draw target's resolution; the view and projection    *)
(* matrices, the AOV bindings and the lighting context are left out.       *)
(*                                                                         *)
(* The scene holds a fixed population of draw targets; between two frames  *)
(* the scene delegate changes their collections and enable flags, marks    *)
(* the draw target set dirty, changes the task's parameters and render     *)
(* tags, removes and restores cameras and flips the alpha-to-coverage      *)
(* switches.                                                               *)
(*                                                                         *)
(* Indices are 1-based here (TLA+ sequences); the code's originalIndex i   *)
(* is i+1 in the model.  A pointer to a draw target is the position of     *)
(* that draw target in the render index's draw target vector.              *)
(*                                                                         *)
(* result->reserve(n) (line 209) and the fact that no index is pushed      *)
(* twice (C2_Totality) keep the reference `entry` of line 220 valid across *)
(* the push_back of line 230.                                              *)
(***************************************************************************)
EXTENDS Integers, Sequences, FiniteSets, TLC

VARIABLES
    \* ---- the scene (render index and change tracker) ----
    drawTargets,        \* HdStDrawTarget sprims in namespace order
    drawTargetVersion,  \* changeTracker.GetStateVersion(drawTargetSet)
    \* ---- HdxDrawTargetTask members ----
    _currentDrawTargetSetVersion,
    _renderPassesInfo,  \* vector<_RenderPassInfo>: target and version
    _renderPasses,      \* vector<HdxDrawTargetRenderPass>
    \* ---- locals of the last full rebuild, kept for the properties ----
    unsortedDrawTargets,  \* _GetSortedDrawTargets: the vector handed to the sort
    drawTargetEntries,    \* Sync: the vector the sort filled
    mismatch,             \* TF_CODING_ERROR("Mismatch") was raised by the last sort
    \* ---- the frame ----
    pc,                 \* which phase of the frame has completed
    syncPath,           \* branch taken by the last Sync at line 313
    refreshed,          \* entries whose surface the last Sync re-bound (l.357)
    glCalls,            \* draw/resolve calls issued by the last Execute
    prepareCalls,       \* renderPass->Prepare() calls issued by the last Prepare
    \* ---- what Sync reads besides the draw target set ----
    cameras,            \* draw targets whose camera sprim is in the render index
    depthPriority,      \* per draw target: GetRenderPassState()->GetDepthPriority()
    resolution,         \* per draw target: GetResolution(), <<width, height>>
    delegateParams,     \* the value the delegate holds for the task's params
    delegateRenderTags, \* the delegate's render tags for the task
    taskSetAlphaToCoverage,         \* delegate->IsEnabled(taskSetAlphaToCoverage)
    HDX_DISABLE_ALPHA_TO_COVERAGE,  \* TfDebug::IsEnabled(...)
    dirtyBits,          \* *dirtyBits: the task's dirty bits
    taskEdits,          \* edits of the above since the task was created
    \* ---- HdxDrawTargetTask members, continued ----
    _overrideColor,
    _wireframeColor,
    _enableLighting,
    _alphaThreshold,
    _depthBiasUseDefault,
    _depthBiasEnable,
    _depthBiasConstantFactor,
    _depthBiasSlopeFactor,
    _depthFunc,
    _cullStyle,
    _enableSampleAlphaToCoverage,
    _renderTags,
    renderPassState,    \* the HdStRenderPassState of _renderPassesInfo[k], by k
    ctx,                \* the task context: the tokens Sync has stored in it
    \* ---- the frame, continued ----
    missingCamera,      \* position of the entry the last Sync returned at
                        \* (line 401), 0 when it did not
    gl,                 \* raster state of the GL context when Execute returned
    glInLoop            \* raster state of the GL context during the draw loop

sceneVars == <<drawTargets, drawTargetVersion>>
taskVars  == <<_currentDrawTargetSetVersion, _renderPassesInfo, _renderPasses>>
sortVars  == <<unsortedDrawTargets, drawTargetEntries, mismatch>>
frameVars == <<pc, syncPath, refreshed, glCalls, prepareCalls>>
delegateVars == <<cameras, depthPriority, resolution, delegateParams,
                  delegateRenderTags, taskSetAlphaToCoverage,
                  HDX_DISABLE_ALPHA_TO_COVERAGE>>
paramVars == <<_overrideColor, _wireframeColor, _enableLighting,
               _alphaThreshold, _depthBiasUseDefault, _depthBiasEnable,
               _depthBiasConstantFactor, _depthBiasSlopeFactor, _depthFunc,
               _cullStyle>>
stateVars == <<_enableSampleAlphaToCoverage, _renderTags, renderPassState, ctx>>
glVars    == <<gl, glInLoop>>
vars == <<sceneVars, taskVars, sortVars, frameVars, delegateVars, dirtyBits,
          taskEdits, paramVars, stateVars, missingCamera, glVars>>

---------------------------------------------------------------------------
(* Bounds of the model *)

\* longest draw target vector handed to _SortDrawTargets in SortSpec
MaxTargets == 3
\* number of draw targets of the scene in Spec
NumSceneTargets == 2
\* number of changes the scene undergoes (each advances a version counter)
MaxSceneChanges == 2
\* largest width and height of a draw target in ParamSpec
MaxResolution == 2

---------------------------------------------------------------------------
(* SdfPath and HdRprimCollection *)

\* SdfPath of the i-th draw target: /1, /1/1, /2, /2/1, ... (namespace order)
IdOf(i) == IF i % 2 = 1 THEN << (i + 1) \div 2 >> ELSE << i \div 2, 1 >>

\* SdfPath::HasPrefix
HasPrefix(path, prefix) ==
    /\ Len(prefix) <= Len(path)
    /\ SubSeq(path, 1, Len(prefix)) = prefix

RootChoices ==
    { {}, { <<>> }, { <<1>> }, { <<1, 1>> }, { <<2>> }, { <<1, 1>>, <<2>> } }
ExcludeChoices == { {}, { <<1, 1>> }, { <<1>> } }

\* HdRprimCollection: GetRootPaths / GetExcludePaths
Collections == [rootPaths : RootChoices, excludePaths : ExcludeChoices]

_DoesCollectionContainPath(collection, path) ==
    IF \E excludePath \in collection.excludePaths : HasPrefix(path, excludePath)
    THEN FALSE
    ELSE \E rootPath \in collection.rootPaths : HasPrefix(path, rootPath)

\* mutant: a draw target may depend on itself
_IsDependentOn_Self(dts, dependent, dependency) ==
    _DoesCollectionContainPath(dts[dependent].collection, dts[dependency].id)

\* mutant: a disabled draw target is not counted as a dependency
_IsDependentOn_Enabled(dts, dependent, dependency) ==
    /\ dependent # dependency
    /\ dts[dependency].enabled
    /\ _DoesCollectionContainPath(dts[dependent].collection, dts[dependency].id)

\* drawTarget, otherDrawTarget are positions in dts (never null: the vector
\* holds the sprims the render index found)
_IsDependentOn(dts, dependent, dependency) ==
    /\ dependent # dependency
    /\ _DoesCollectionContainPath(dts[dependent].collection, dts[dependency].id)

---------------------------------------------------------------------------
(* _SortDrawTargets *)

\* the sequence of the members of the set of numbers S, increasing
RECURSIVE Ascending(_)
Ascending(S) ==
    IF S = {} THEN << >>
    ELSE LET m == CHOOSE x \in S : \A y \in S : x <= y
         IN  << m >> \o Ascending(S \ {m})

_DrawTargetEntry(dependent) ==
    [originalIndex |-> dependent,
     drawTarget |-> dependent,
     hasDependentDrawTargets |-> FALSE]

\* lines 185-201: [indexToDependencies, indexToDependents]
ComputeDependencies(dts) ==
    LET n == Len(dts) IN
    [indexToDependencies |->
        [dependent \in 1..n |->
            {dependency \in 1..n : _IsDependentOn(dts, dependent, dependency)}],
     indexToDependents |->
        [dependency \in 1..n |->
            Ascending({dependent \in 1..n :
                          _IsDependentOn(dts, dependent, dependency)})]]

\* mutant: the independent draw targets are scheduled last to first
ScheduleIndependent_Descending(n, indexToDependencies) ==
    LET RECURSIVE Push(_, _)
        Push(dependent, result) ==
            IF dependent < 1 THEN result
            ELSE Push(dependent - 1,
                      IF indexToDependencies[dependent] = {}
                      THEN Append(result, _DrawTargetEntry(dependent))
                      ELSE result)
    IN  Push(n, << >>)

\* lines 209-215: the draw targets that depend on no other draw target
ScheduleIndependent(n, indexToDependencies) ==
    LET RECURSIVE Push(_, _)
        Push(dependent, result) ==
            IF dependent > n THEN result
            ELSE Push(dependent + 1,
                      IF indexToDependencies[dependent] = {}
                      THEN Append(result, _DrawTargetEntry(dependent))
                      ELSE result)
    IN  Push(1, << >>)

\* lines 223-234, one iteration of the inner loop for entry i
ProcessDependent(st, i, dependent) ==
    LET dependency == st.result[i].originalIndex
        deps == [st.indexToDependencies EXCEPT
                    ![dependent] = @ \ {dependency}]
        pushed == IF deps[dependent] = {}
                  THEN Append(st.result, _DrawTargetEntry(dependent))
                  ELSE st.result
    IN  [result |-> [pushed EXCEPT ![i].hasDependentDrawTargets = TRUE],
         indexToDependencies |-> deps]

\* lines 219-235: iterate through the scheduled entries while scheduling more
ReadyPass(st0, indexToDependents) ==
    LET RECURSIVE Inner(_, _, _)
        Inner(st, i, k) ==
            LET dependents == indexToDependents[st.result[i].originalIndex] IN
            IF k > Len(dependents) THEN st
            ELSE Inner(ProcessDependent(st, i, dependents[k]), i, k + 1)
        RECURSIVE Outer(_, _)
        Outer(st, i) ==
            IF i > Len(st.result) THEN st
            ELSE Outer(Inner(st, i, 1), i + 1)
    IN  Outer(st0, 1)

\* mutant: the unscheduled draw targets are dropped
CycleFallback_Drop(n, st) == st.result

\* mutant: an appended entry is flagged when an unscheduled draw target
\* still waits for it
CycleFallback_MarkDependents(n, st) ==
    LET RECURSIVE Push(_, _)
        Push(i, result) ==
            IF i > n THEN result
            ELSE Push(i + 1,
                      IF st.indexToDependencies[i] # {}
                      THEN Append(result,
                                  [_DrawTargetEntry(i) EXCEPT
                                      !.hasDependentDrawTargets =
                                          \E j \in 1..n :
                                              i \in st.indexToDependencies[j]])
                      ELSE result)
    IN  IF Len(st.result) < n THEN Push(1, st.result) ELSE st.result

\* mutant: the unscheduled draw targets are appended last to first
CycleFallback_Descending(n, st) ==
    LET RECURSIVE Push(_, _)
        Push(i, result) ==
            IF i < 1 THEN result
            ELSE Push(i - 1,
                      IF st.indexToDependencies[i] # {}
                      THEN Append(result, _DrawTargetEntry(i))
                      ELSE result)
    IN  IF Len(st.result) < n THEN Push(n, st.result) ELSE st.result

\* lines 241-249: schedule what a cycle kept out, in the original order
CycleFallback(n, st) ==
    LET RECURSIVE Push(_, _)
        Push(i, result) ==
            IF i > n THEN result
            ELSE Push(i + 1,
                      IF st.indexToDependencies[i] # {}
                      THEN Append(result, _DrawTargetEntry(i))
                      ELSE result)
    IN  IF Len(st.result) < n THEN Push(1, st.result) ELSE st.result

\* the state of the sort when the ready pass (line 235) is over
AfterReadyPass(dts) ==
    LET d == ComputeDependencies(dts) IN
    ReadyPass([result |-> ScheduleIndependent(Len(dts), d.indexToDependencies),
               indexToDependencies |-> d.indexToDependencies],
              d.indexToDependents)

\* lines 170-255: [result, mismatch]
_SortDrawTargets(dts) ==
    IF Len(dts) = 0
    THEN [result |-> << >>, mismatch |-> FALSE]
    ELSE LET result == CycleFallback(Len(dts), AfterReadyPass(dts))
         IN  [result |-> result, mismatch |-> Len(result) # Len(dts)]

---------------------------------------------------------------------------
(* The scene *)

DrawTarget(i, c, e, v) ==
    [id |-> IdOf(i), collection |-> c, enabled |-> e, version |-> v]

\* every draw target vector of length n over the modelled collections
Scenes(n, Enabled) ==
    { [i \in 1..n |-> DrawTarget(i, cs[i], es[i], 1)] :
        cs \in [1..n -> Collections], es \in [1..n -> Enabled] }

---------------------------------------------------------------------------
(* Task parameters, dirty bits and the depth function table *)

\* HdCompareFunction and HdDepthPriority in the order of their values, which
\* is the order of the rows and columns of the table of lines 55-81
HdCompareFunction ==
    << "HdCmpFuncNever", "HdCmpFuncLess", "HdCmpFuncEqual", "HdCmpFuncLEqual",
       "HdCmpFuncGreater", "HdCmpFuncNotEqual", "HdCmpFuncGEqual",
       "HdCmpFuncAlways" >>
HdDepthPriority == << "HdDepthPriorityNearest", "HdDepthPriorityFarthest" >>

\* the position of an enumerator in its enumeration
EnumIndex(enumeration, name) ==
    CHOOSE k \in 1..Len(enumeration) : enumeration[k] = name

\* mutant: for the farthest priority, less is resolved to greater
ResolvedDepthFunc_LessToGreater ==
    << << "HdCmpFuncNever", "HdCmpFuncLess", "HdCmpFuncEqual",
          "HdCmpFuncLEqual", "HdCmpFuncGreater", "HdCmpFuncNotEqual",
          "HdCmpFuncGEqual", "HdCmpFuncAlways" >>,
       << "HdCmpFuncNever", "HdCmpFuncGreater", "HdCmpFuncEqual",
          "HdCmpFuncGreater", "HdCmpFuncLEqual", "HdCmpFuncNotEqual",
          "HdCmpFuncLess", "HdCmpFuncAlways" >> >>

\* lines 55-81
ResolvedDepthFunc ==
    << \* HdDepthPriorityNearest
       << "HdCmpFuncNever", "HdCmpFuncLess", "HdCmpFuncEqual",
          "HdCmpFuncLEqual", "HdCmpFuncGreater", "HdCmpFuncNotEqual",
          "HdCmpFuncGEqual", "HdCmpFuncAlways" >>,
       \* HdDepthPriorityFarthest
       << "HdCmpFuncNever", "HdCmpFuncGEqual", "HdCmpFuncEqual",
          "HdCmpFuncGreater", "HdCmpFuncLEqual", "HdCmpFuncNotEqual",
          "HdCmpFuncLess", "HdCmpFuncAlways" >> >>

\* lines 50-84
HdxDrawTargetTask_GetResolvedDepthFunc(depthFunc, priority) ==
    ResolvedDepthFunc[EnumIndex(HdDepthPriority, priority)]
                     [EnumIndex(HdCompareFunction, depthFunc)]

\* HdxDrawTargetTaskParams as a delegate supplies them.  Colours are names,
\* the float fields are whole numbers.
TaskParams(useDefault, enable, depthFunc) ==
    [overrideColor |-> "red",
     wireframeColor |-> "blue",
     enableLighting |-> TRUE,
     alphaThreshold |-> 1,
     cullStyle |-> "HdCullStyleNothing",
     depthBiasUseDefault |-> useDefault,
     depthBiasEnable |-> enable,
     depthBiasConstantFactor |-> 2,
     depthBiasSlopeFactor |-> 3,
     depthFunc |-> depthFunc]

\* the delegate's value for the params is no HdxDrawTargetTaskParams
NoParams == [depthFunc |-> "none"]

\* the task's global parameters, as a record
GlobalParams ==
    [overrideColor |-> _overrideColor,
     wireframeColor |-> _wireframeColor,
     enableLighting |-> _enableLighting,
     alphaThreshold |-> _alphaThreshold,
     cullStyle |-> _cullStyle,
     depthBiasUseDefault |-> _depthBiasUseDefault,
     depthBiasEnable |-> _depthBiasEnable,
     depthBiasConstantFactor |-> _depthBiasConstantFactor,
     depthBiasSlopeFactor |-> _depthBiasSlopeFactor,
     depthFunc |-> _depthFunc]

\* HdChangeTracker: the dirty bits Sync tests; Clean is the empty set
AllDirty == {"DirtyParams", "DirtyRenderTags"}

---------------------------------------------------------------------------
(* The render pass state of one entry, lines 404-457 *)

\* std::make_shared<HdStRenderPassState>(), line 336: nothing set on it yet
NewRenderPassState ==
    [overrideColor |-> "black",
     wireframeColor |-> "black",
     lightingEnabled |-> FALSE,
     alphaThreshold |-> 0,
     cullStyle |-> "HdCullStyleDontCare",
     depthFunc |-> "HdCmpFuncLess",
     aspect |-> 0,
     viewport |-> << 0, 0 >>,
     prepared |-> FALSE]

\* line 435: resolution[1] != 0.0 ? resolution[0] / resolution[1] : 1.0
\* resolution is a GfVec2i: the quotient is the quotient of two ints, and it
\* is that whole number which is converted to double
Aspect(res) == IF res[2] # 0 THEN res[1] \div res[2] ELSE 1

\* lines 404-457: what the loop body sets on the render pass state of an
\* entry whose camera exists
BuildRenderPassState(params, priority, res) ==
    [overrideColor |-> params.overrideColor,
     wireframeColor |-> params.wireframeColor,
     lightingEnabled |-> params.enableLighting,
     alphaThreshold |-> params.alphaThreshold,
     cullStyle |-> params.cullStyle,
     depthFunc |->
         HdxDrawTargetTask_GetResolvedDepthFunc(params.depthFunc, priority),
     aspect |-> Aspect(res),
     viewport |-> res,
     prepared |-> TRUE]

---------------------------------------------------------------------------
(* The raster state of the GL context that Execute touches *)

\* the defaults of a GL context
GLDefaults ==
    [GL_POLYGON_OFFSET_FILL |-> FALSE,
     GL_SAMPLE_ALPHA_TO_COVERAGE |-> FALSE,
     GL_PROGRAM_POINT_SIZE |-> FALSE,
     frontFace |-> "GL_CCW",
     polygonOffset |-> << 0, 0 >>]

\* the states other tasks and the application may leave the context in
GLStates ==
    [GL_POLYGON_OFFSET_FILL : BOOLEAN,
     GL_SAMPLE_ALPHA_TO_COVERAGE : BOOLEAN,
     GL_PROGRAM_POINT_SIZE : BOOLEAN,
     frontFace : {"GL_CCW", "GL_CW"},
     polygonOffset : { << 0, 0 >> }]

---------------------------------------------------------------------------
(* lines 258-267 *)

_GetSortedDrawTargets ==
    LET sorted == _SortDrawTargets(drawTargets) IN
    /\ unsortedDrawTargets' = drawTargets
    /\ drawTargetEntries' = sorted.result
    /\ mismatch' = sorted.mismatch

TaskInit ==
    /\ _currentDrawTargetSetVersion = 0
    /\ _renderPassesInfo = << >>
    /\ _renderPasses = << >>
    /\ unsortedDrawTargets = << >>
    /\ drawTargetEntries = << >>
    /\ mismatch = FALSE
    /\ syncPath = "none"
    /\ refreshed = {}
    /\ glCalls = << >>
    /\ prepareCalls = << >>
    /\ _overrideColor = "black"
    /\ _wireframeColor = "black"
    /\ _enableLighting = FALSE
    /\ _alphaThreshold = 0
    /\ _depthBiasUseDefault = TRUE
    /\ _depthBiasEnable = FALSE
    /\ _depthBiasConstantFactor = 0
    /\ _depthBiasSlopeFactor = 1
    /\ _depthFunc = "HdCmpFuncLEqual"
    /\ _cullStyle = "HdCullStyleBackUnlessDoubleSided"
    /\ _enableSampleAlphaToCoverage = TRUE
    /\ _renderTags = << >>
    /\ renderPassState = << >>
    /\ ctx = {}
    /\ missingCamera = 0
    /\ gl = GLDefaults
    /\ glInLoop = GLDefaults

\* a scene of n draw targets whose cameras exist, a delegate that holds
\* params and render tags for the task, and the task as the render index
\* inserted it: all its bits dirty
DelegateInit(n) ==
    /\ cameras = 1..n
    /\ depthPriority = [i \in 1..n |-> "HdDepthPriorityNearest"]
    /\ resolution = [i \in 1..n |-> << 2, 1 >>]
    /\ delegateParams = TaskParams(FALSE, TRUE, "HdCmpFuncLess")
    /\ delegateRenderTags = << "geometry" >>
    /\ taskSetAlphaToCoverage = TRUE
    /\ HDX_DISABLE_ALPHA_TO_COVERAGE = FALSE
    /\ dirtyBits = AllDirty
    /\ taskEdits = 0

(* SortSpec: _GetSortedDrawTargets applied to every bounded draw target vector *)
SortInit ==
    /\ \E n \in 0..MaxTargets : drawTargets \in Scenes(n, {TRUE})
    /\ drawTargetVersion = 1
    /\ pc = "unsorted"
    /\ TaskInit
    /\ DelegateInit(Len(drawTargets))

SortDrawTargets ==
    /\ pc = "unsorted"
    /\ _GetSortedDrawTargets
    /\ pc' = "sorted"
    /\ UNCHANGED <<sceneVars, taskVars, syncPath, refreshed, glCalls, prepareCalls,
                   delegateVars, dirtyBits, taskEdits, paramVars, stateVars,
                   missingCamera, glVars>>

SortNext == SortDrawTargets

SortSpec == SortInit /\ [][SortNext]_vars

---------------------------------------------------------------------------
(* The scene between two frames *)

\* the collections the draw targets of the scene take in Spec
SceneCollections ==
    { c \in Collections :
        \/ c.rootPaths = {} /\ c.excludePaths = {}
        \/ c.rootPaths = { <<1>> } /\ c.excludePaths = {}
        \/ c.rootPaths = { <<1>> } /\ c.excludePaths = { <<1, 1>> } }

\* HdStDrawTarget::GetGlfDrawTarget: the surface of draw target i; a new one
\* replaces it whenever the draw target's version advances
GetGlfDrawTarget(dts, i) == [target |-> i, version |-> dts[i].version]

RECURSIVE VersionSum(_, _)
VersionSum(dts, n) ==
    IF n = 0 THEN 0 ELSE (dts[n].version - 1) + VersionSum(dts, n - 1)

\* the changes the scene has undergone: every one advanced a version by one
\* or was counted in taskEdits
SceneChanges ==
    VersionSum(drawTargets, Len(drawTargets)) + (drawTargetVersion - 1)
        + taskEdits

\* the scene delegate gives draw target i the collection c (or new
\* attachments, when c is the collection it has): its version advances
SetCollection(i, c) ==
    /\ pc \in {"idle", "executed"}
    /\ SceneChanges < MaxSceneChanges
    /\ drawTargets' = [drawTargets EXCEPT
                          ![i] = DrawTarget(i, c, @.enabled, @.version + 1)]
    /\ pc' = "idle"
    /\ UNCHANGED <<drawTargetVersion, taskVars, sortVars,
                   syncPath, refreshed, glCalls, prepareCalls,
                   delegateVars, dirtyBits, taskEdits, paramVars, stateVars,
                   missingCamera, glVars>>

\* the scene delegate enables or disables draw target i: its version advances
SetEnabled(i, e) ==
    /\ pc \in {"idle", "executed"}
    /\ SceneChanges < MaxSceneChanges
    /\ drawTargets[i].enabled # e
    /\ drawTargets' = [drawTargets EXCEPT
                          ![i] = DrawTarget(i, @.collection, e, @.version + 1)]
    /\ pc' = "idle"
    /\ UNCHANGED <<drawTargetVersion, taskVars, sortVars,
                   syncPath, refreshed, glCalls, prepareCalls,
                   delegateVars, dirtyBits, taskEdits, paramVars, stateVars,
                   missingCamera, glVars>>

\* changeTracker.MarkStateDirty(drawTargetSet)
MarkDrawTargetSetDirty ==
    /\ pc \in {"idle", "executed"}
    /\ SceneChanges < MaxSceneChanges
    /\ drawTargetVersion' = drawTargetVersion + 1
    /\ pc' = "idle"
    /\ UNCHANGED <<drawTargets, taskVars, sortVars,
                   syncPath, refreshed, glCalls, prepareCalls,
                   delegateVars, dirtyBits, taskEdits, paramVars, stateVars,
                   missingCamera, glVars>>

\* what an edit of the delegate's data for the task leaves alone
EditFrame ==
    /\ SceneChanges < MaxSceneChanges
    /\ pc \in {"idle", "executed"}
    /\ pc' = "idle"
    /\ taskEdits' = taskEdits + 1
    /\ UNCHANGED <<sceneVars, taskVars, sortVars, syncPath, refreshed, glCalls, prepareCalls,
                   paramVars, stateVars, missingCamera, glVars>>

\* the delegate takes the value p for the task's params and, if mark, marks
\* the task's params dirty (HdChangeTracker::MarkTaskDirty)
SetTaskParams(p, mark) ==
    /\ EditFrame
    /\ p # delegateParams \/ mark
    /\ delegateParams' = p
    /\ dirtyBits' = IF mark THEN dirtyBits \cup {"DirtyParams"} ELSE dirtyBits
    /\ UNCHANGED <<cameras, depthPriority, resolution, delegateRenderTags,
                   taskSetAlphaToCoverage, HDX_DISABLE_ALPHA_TO_COVERAGE>>

\* the delegate takes the render tags t for the task and, if mark, marks the
\* task's render tags dirty
SetRenderTags(t, mark) ==
    /\ EditFrame
    /\ t # delegateRenderTags \/ mark
    /\ delegateRenderTags' = t
    /\ dirtyBits' = IF mark THEN dirtyBits \cup {"DirtyRenderTags"}
                            ELSE dirtyBits
    /\ UNCHANGED <<cameras, depthPriority, resolution, delegateParams,
                   taskSetAlphaToCoverage, HDX_DISABLE_ALPHA_TO_COVERAGE>>

\* the camera of draw target i is removed from the render index, or inserted
SetCamera(i, present) ==
    /\ EditFrame
    /\ (i \in cameras) # present
    /\ cameras' = IF present THEN cameras \cup {i} ELSE cameras \ {i}
    /\ UNCHANGED <<depthPriority, resolution, delegateParams,
                   delegateRenderTags, taskSetAlphaToCoverage,
                   HDX_DISABLE_ALPHA_TO_COVERAGE, dirtyBits>>

\* the delegate's taskSetAlphaToCoverage option and the debug code
\* HDX_DISABLE_ALPHA_TO_COVERAGE are switched
SetAlphaToCoverageSwitches(option, debug) ==
    /\ EditFrame
    /\ << option, debug >>
           # << taskSetAlphaToCoverage, HDX_DISABLE_ALPHA_TO_COVERAGE >>
    /\ taskSetAlphaToCoverage' = option
    /\ HDX_DISABLE_ALPHA_TO_COVERAGE' = debug
    /\ UNCHANGED <<cameras, depthPriority, resolution, delegateParams,
                   delegateRenderTags, dirtyBits>>

---------------------------------------------------------------------------
(* HdxDrawTargetTask::Sync, lines 279-366 *)

\* mutant: a pass is created for a disabled draw target too
IsEnabled_Always(dts, entry) == TRUE

\* line 325: drawTarget->IsEnabled()
IsEnabled(dts, entry) == dts[entry.drawTarget].enabled

\* mutant: the passes are created in the order of the unsorted vector
RebuildRenderPasses_Unsorted(dts, entries) ==
    LET EntryOf(i) == CHOOSE k \in 1..Len(entries) : entries[k].originalIndex = i
        RECURSIVE Build(_, _, _)
        Build(i, passes, infos) ==
            IF i > Len(entries) THEN [passes |-> passes, infos |-> infos]
            ELSE IF dts[i].enabled
            THEN Build(i + 1,
                       Append(passes,
                              [drawTarget |-> [target |-> i,
                                               version |-> dts[i].version],
                               hasDependentDrawTargets |->
                                   entries[EntryOf(i)].hasDependentDrawTargets]),
                       Append(infos,
                              [target |-> i, version |-> dts[i].version]))
            ELSE Build(i + 1, passes, infos)
    IN  Build(1, << >>, << >>)

\* lines 323-342: one pass and one info per entry of an enabled draw target
RebuildRenderPasses(dts, entries) ==
    LET RECURSIVE Build(_, _, _)
        Build(k, passes, infos) ==
            IF k > Len(entries) THEN [passes |-> passes, infos |-> infos]
            ELSE IF IsEnabled(dts, entries[k])
            THEN Build(k + 1,
                       Append(passes,
                              [drawTarget |->
                                   GetGlfDrawTarget(dts, entries[k].drawTarget),
                               hasDependentDrawTargets |->
                                   entries[k].hasDependentDrawTargets]),
                       Append(infos,
                              [target |-> entries[k].drawTarget,
                               version |-> dts[entries[k].drawTarget].version]))
            ELSE Build(k + 1, passes, infos)
    IN  Build(1, << >>, << >>)

\* mutant: the rebuild does not record the version it was made for
SyncStale_KeepVersion ==
    /\ _currentDrawTargetSetVersion # drawTargetVersion
    /\ _GetSortedDrawTargets
    /\ LET built == RebuildRenderPasses(drawTargets, drawTargetEntries') IN
          /\ _renderPasses' = built.passes
          /\ _renderPassesInfo' = built.infos
    /\ UNCHANGED _currentDrawTargetSetVersion
    /\ syncPath' = "stale"
    /\ refreshed' = {}

\* lines 313-343: the draw target set changed
SyncStale ==
    /\ _currentDrawTargetSetVersion # drawTargetVersion
    /\ _GetSortedDrawTargets
    /\ LET built == RebuildRenderPasses(drawTargets, drawTargetEntries') IN
          /\ _renderPasses' = built.passes
          /\ _renderPassesInfo' = built.infos
    /\ _currentDrawTargetSetVersion' = drawTargetVersion
    /\ syncPath' = "stale"
    /\ refreshed' = {}

\* mutant: the passes are rebuilt although the draw target set is unchanged
SyncFresh_Rebuild ==
    /\ _currentDrawTargetSetVersion = drawTargetVersion
    /\ _GetSortedDrawTargets
    /\ LET built == RebuildRenderPasses(drawTargets, drawTargetEntries') IN
          /\ _renderPasses' = built.passes
          /\ _renderPassesInfo' = built.infos
    /\ refreshed' = {}
    /\ syncPath' = "fresh"
    /\ UNCHANGED _currentDrawTargetSetVersion

\* line 356
NeedsRefresh(info, targetVersion) == info.version # targetVersion

\* lines 344-362: look for changes in the individual draw targets
SyncFresh ==
    /\ _currentDrawTargetSetVersion = drawTargetVersion
    /\ LET numRenderPasses == Len(_renderPassesInfo)
           changed == { renderPassIdx \in 1..numRenderPasses :
                          NeedsRefresh(
                              _renderPassesInfo[renderPassIdx],
                              drawTargets[_renderPassesInfo[renderPassIdx].target]
                                  .version) }
       IN  /\ _renderPasses' =
                 [renderPassIdx \in 1..numRenderPasses |->
                     IF renderPassIdx \in changed
                     THEN [_renderPasses[renderPassIdx] EXCEPT
                              !.drawTarget =
                                  GetGlfDrawTarget(
                                      drawTargets,
                                      _renderPassesInfo[renderPassIdx].target)]
                     ELSE _renderPasses[renderPassIdx]]
           /\ _renderPassesInfo' =
                 [renderPassIdx \in 1..numRenderPasses |->
                     IF renderPassIdx \in changed
                     THEN [_renderPassesInfo[renderPassIdx] EXCEPT
                              !.version =
                                  drawTargets[
                                      _renderPassesInfo[renderPassIdx].target]
                                      .version]
                     ELSE _renderPassesInfo[renderPassIdx]]
           /\ refreshed' = changed
    /\ syncPath' = "fresh"
    /\ UNCHANGED <<_currentDrawTargetSetVersion, sortVars>>

\* mutant: the return on a failed fetch clears the dirty bits
SyncParamsNotFetched_Clean ==
    /\ "DirtyParams" \in dirtyBits
    /\ delegateParams = NoParams
    /\ syncPath' = "aborted"
    /\ refreshed' = {}
    /\ missingCamera' = 0
    /\ dirtyBits' = {}
    /\ UNCHANGED <<taskVars, sortVars, paramVars, stateVars>>

\* lines 279-284: the parameters are dirty and the delegate's value for them
\* is no HdxDrawTargetTaskParams; Sync returns before it looks at the draw
\* targets
SyncParamsNotFetched ==
    /\ "DirtyParams" \in dirtyBits
    /\ delegateParams = NoParams
    /\ syncPath' = "aborted"
    /\ refreshed' = {}
    /\ missingCamera' = 0
    /\ UNCHANGED <<taskVars, sortVars, paramVars, stateVars, dirtyBits>>

\* mutant: the parameters are fetched whether they are dirty or not
SyncParams_Always ==
    /\ delegateParams # NoParams
    /\ _wireframeColor' = delegateParams.wireframeColor
    /\ _enableLighting' = delegateParams.enableLighting
    /\ _overrideColor' = delegateParams.overrideColor
    /\ _alphaThreshold' = delegateParams.alphaThreshold
    /\ _cullStyle' = delegateParams.cullStyle
    /\ _depthBiasUseDefault' = delegateParams.depthBiasUseDefault
    /\ _depthBiasEnable' = delegateParams.depthBiasEnable
    /\ _depthBiasConstantFactor' = delegateParams.depthBiasConstantFactor
    /\ _depthBiasSlopeFactor' = delegateParams.depthBiasSlopeFactor
    /\ _depthFunc' = delegateParams.depthFunc

\* lines 279-301, the parameters being fetched when they are dirty
SyncParams ==
    IF "DirtyParams" \in dirtyBits
    THEN /\ delegateParams # NoParams
         /\ _wireframeColor' = delegateParams.wireframeColor
         /\ _enableLighting' = delegateParams.enableLighting
         /\ _overrideColor' = delegateParams.overrideColor
         /\ _alphaThreshold' = delegateParams.alphaThreshold
         /\ _cullStyle' = delegateParams.cullStyle
         /\ _depthBiasUseDefault' = delegateParams.depthBiasUseDefault
         /\ _depthBiasEnable' = delegateParams.depthBiasEnable
         /\ _depthBiasConstantFactor' = delegateParams.depthBiasConstantFactor
         /\ _depthBiasSlopeFactor' = delegateParams.depthBiasSlopeFactor
         /\ _depthFunc' = delegateParams.depthFunc
    ELSE UNCHANGED paramVars

\* lines 303-305
SyncRenderTags ==
    IF "DirtyRenderTags" \in dirtyBits
    THEN _renderTags' = delegateRenderTags
    ELSE UNCHANGED _renderTags

\* mutant: a missing camera skips the entry and the loop goes on
SyncRenderPassStates_Skip(infos, states, params) ==
    LET RECURSIVE Loop(_, _, _)
        Loop(renderPassIdx, built, missing) ==
            IF renderPassIdx > Len(infos)
            THEN [states |-> built, missing |-> missing]
            ELSE IF infos[renderPassIdx].target \notin cameras
            THEN Loop(renderPassIdx + 1, built,
                      IF missing = 0 THEN renderPassIdx ELSE missing)
            ELSE Loop(renderPassIdx + 1,
                      [built EXCEPT ![renderPassIdx] =
                          BuildRenderPassState(
                              params,
                              depthPriority[infos[renderPassIdx].target],
                              resolution[infos[renderPassIdx].target])],
                      missing)
    IN  Loop(1, states, 0)

\* lines 376-458: the render pass states after the loop and the position of
\* the entry whose camera was missing (0: the loop ran to its end)
SyncRenderPassStates(infos, states, params) ==
    LET RECURSIVE Loop(_, _)
        Loop(renderPassIdx, built) ==
            IF renderPassIdx > Len(infos)
            THEN [states |-> built, missing |-> 0]
            ELSE IF infos[renderPassIdx].target \notin cameras
            THEN [states |-> built, missing |-> renderPassIdx]
            ELSE Loop(renderPassIdx + 1,
                      [built EXCEPT ![renderPassIdx] =
                          BuildRenderPassState(
                              params,
                              depthPriority[infos[renderPassIdx].target],
                              resolution[infos[renderPassIdx].target])])
    IN  Loop(1, states)

\* mutant: the debug code alone switches alpha to coverage off
AlphaToCoverage_DebugOnly == ~HDX_DISABLE_ALPHA_TO_COVERAGE

\* lines 467-472
AlphaToCoverage ==
    ~(taskSetAlphaToCoverage /\ HDX_DISABLE_ALPHA_TO_COVERAGE)

\* mutant: a missing camera ends the loop only, Sync goes on to its end
SyncEnd_Always(missing) ==
    /\ _enableSampleAlphaToCoverage' = AlphaToCoverage
    /\ dirtyBits' = {}

\* lines 397-402 and 460-474: Sync returns at the entry whose camera is
\* missing, or goes on to set the alpha-to-coverage flag and clear the bits
SyncEnd(missing) ==
    IF missing # 0
    THEN UNCHANGED <<_enableSampleAlphaToCoverage, dirtyBits>>
    ELSE /\ _enableSampleAlphaToCoverage' = AlphaToCoverage
         /\ dirtyBits' = {}

\* lines 271-475.  The lighting of the passes (the lighting context of the
\* task context, the simple lighting shaders) is left out.
Sync ==
    /\ pc \in {"idle", "executed"}
    /\ \/ SyncParamsNotFetched
       \/ /\ SyncParams
          /\ SyncRenderTags
          /\ \/ SyncStale
             \/ SyncFresh
          /\ ctx' = ctx \cup {"drawTargetRenderPasses"}
          /\ LET loop == SyncRenderPassStates(
                             _renderPassesInfo',
                             IF syncPath' = "stale"
                             THEN [k \in 1..Len(_renderPassesInfo') |->
                                      NewRenderPassState]
                             ELSE renderPassState,
                             GlobalParams')
             IN  /\ renderPassState' = loop.states
                 /\ missingCamera' = loop.missing
                 /\ SyncEnd(loop.missing)
    /\ pc' = "synced"
    /\ UNCHANGED <<sceneVars, glCalls, prepareCalls, delegateVars, taskEdits, glVars>>

---------------------------------------------------------------------------
(* HdxDrawTargetTask::Prepare, lines 477-490 *)

\* mutant: the loop stops before the last pass
PrepareLoop_SkipLast(infos, passes) ==
    [renderPassIdx \in 1..(Len(infos) - 1) |->
        [op |-> "Prepare", target |-> passes[renderPassIdx].drawTarget.target]]

\* lines 481-489: renderPass->Prepare() on the pass of every entry, by index.
\* The pass is named by the draw target whose surface it holds.
PrepareLoop(infos, passes) ==
    LET RECURSIVE Loop(_, _)
        Loop(renderPassIdx, calls) ==
            IF renderPassIdx > Len(infos) THEN calls
            ELSE Loop(renderPassIdx + 1,
                      Append(calls,
                             [op |-> "Prepare",
                              target |->
                                  passes[renderPassIdx].drawTarget.target]))
    IN  Loop(1, << >>)

Prepare ==
    /\ pc = "synced"
    /\ prepareCalls' = PrepareLoop(_renderPassesInfo, _renderPasses)
    /\ pc' = "prepared"
    /\ UNCHANGED <<sceneVars, taskVars, sortVars, syncPath, refreshed, glCalls,
                   delegateVars, dirtyBits, taskEdits, paramVars, stateVars,
                   missingCamera, glVars>>

---------------------------------------------------------------------------
(* HdxDrawTargetTask::Execute, lines 492-557 *)

\* lines 498-528: the raster state the draw loop runs in, for the state
\* entry Execute found the context in
ApplyRasterState(entry) ==
    LET biased ==
            IF ~_depthBiasUseDefault
            THEN IF _depthBiasEnable
                 THEN [entry EXCEPT
                          !.GL_POLYGON_OFFSET_FILL = TRUE,
                          !.polygonOffset = << _depthBiasSlopeFactor,
                                               _depthBiasConstantFactor >>]
                 ELSE [entry EXCEPT !.GL_POLYGON_OFFSET_FILL = FALSE]
            ELSE entry
    IN  [biased EXCEPT
            !.GL_SAMPLE_ALPHA_TO_COVERAGE = _enableSampleAlphaToCoverage,
            !.GL_PROGRAM_POINT_SIZE = TRUE,
            !.frontFace = "GL_CW"]

\* mutant: only what the task parameters switched is switched back
RestoreRasterState_Conditional(state) ==
    [state EXCEPT
        !.GL_SAMPLE_ALPHA_TO_COVERAGE = FALSE,
        !.GL_PROGRAM_POINT_SIZE = FALSE,
        !.GL_POLYGON_OFFSET_FILL =
            IF ~_depthBiasUseDefault THEN FALSE ELSE @,
        !.frontFace = "GL_CCW"]

\* lines 552-556
RestoreRasterState(state) ==
    [state EXCEPT
        !.GL_SAMPLE_ALPHA_TO_COVERAGE = FALSE,
        !.GL_PROGRAM_POINT_SIZE = FALSE,
        !.GL_POLYGON_OFFSET_FILL = FALSE,
        !.frontFace = "GL_CCW"]

\* mutant: the surface is resolved before the pass is drawn
PassCalls_ResolveFirst(info, pass) ==
    (IF pass.hasDependentDrawTargets
     THEN << [op |-> "Resolve", target |-> pass.drawTarget.target] >>
     ELSE << >>)
    \o << [op |-> "Bind", target |-> info.target],
          [op |-> "Execute", target |-> info.target],
          [op |-> "Unbind", target |-> info.target] >>

\* lines 535-549: the calls of one iteration of the draw loop.  The pass's
\* surface is the one SetDrawTarget stored, so GetDrawTarget() is not null.
PassCalls(info, pass) ==
    << [op |-> "Bind", target |-> info.target],
       [op |-> "Execute", target |-> info.target],
       [op |-> "Unbind", target |-> info.target] >>
    \o (IF pass.hasDependentDrawTargets
        THEN << [op |-> "Resolve", target |-> pass.drawTarget.target] >>
        ELSE << >>)

\* lines 530-550
DrawLoop(infos, passes) ==
    LET RECURSIVE Loop(_, _)
        Loop(renderPassIdx, calls) ==
            IF renderPassIdx > Len(infos) THEN calls
            ELSE Loop(renderPassIdx + 1,
                      calls \o PassCalls(infos[renderPassIdx],
                                         passes[renderPassIdx]))
    IN  Loop(1, << >>)

\* lines 492-557.  Other tasks and the application use the GL context
\* between two calls: Execute finds it in any state.
Execute ==
    /\ pc = "prepared"
    /\ \E entry \in GLStates :
          /\ glInLoop' = ApplyRasterState(entry)
          /\ gl' = RestoreRasterState(ApplyRasterState(entry))
    /\ glCalls' = DrawLoop(_renderPassesInfo, _renderPasses)
    /\ pc' = "executed"
    /\ UNCHANGED <<sceneVars, taskVars, sortVars, syncPath, refreshed,
                   prepareCalls, delegateVars, dirtyBits, taskEdits,
                   paramVars, stateVars, missingCamera>>

---------------------------------------------------------------------------
(* Spec: frames of Sync, Prepare, Execute with scene changes between them *)

Init ==
    /\ drawTargets \in
           { [i \in 1..NumSceneTargets |-> DrawTarget(i, cs[i], TRUE, 1)] :
               cs \in [1..NumSceneTargets -> SceneCollections] }
    /\ drawTargetVersion = 1
    /\ pc = "idle"
    /\ TaskInit
    /\ DelegateInit(NumSceneTargets)

Next ==
    \/ \E i \in 1..NumSceneTargets, c \in SceneCollections : SetCollection(i, c)
    \/ \E i \in 1..NumSceneTargets, e \in BOOLEAN : SetEnabled(i, e)
    \/ MarkDrawTargetSetDirty
    \/ Sync
    \/ Prepare
    \/ Execute

Spec == Init /\ [][Next]_vars

---------------------------------------------------------------------------
(* TaskSpec: frames of Sync, Prepare, Execute with edits of the task's       *)
(* parameters, render tags, cameras and switches between them               *)

\* the params the delegate comes to hold
TaskParamChoices ==
    { TaskParams(FALSE, TRUE, "HdCmpFuncLess"),
      TaskParams(TRUE, FALSE, "HdCmpFuncGreater"),
      NoParams }

RenderTagChoices == { << "geometry" >>, << "geometry", "guide" >> }

\* draw target 2 renders draw target 1; the others render no draw target
TaskSpecInit ==
    /\ drawTargets =
           [i \in 1..NumSceneTargets |->
               DrawTarget(i,
                          [rootPaths |-> IF i = 2 THEN { <<1>> } ELSE {},
                           excludePaths |-> {}],
                          TRUE, 1)]
    /\ drawTargetVersion = 1
    /\ pc = "idle"
    /\ TaskInit
    /\ cameras = 1..NumSceneTargets
    /\ depthPriority = [i \in 1..NumSceneTargets |-> "HdDepthPriorityFarthest"]
    /\ resolution = [i \in 1..NumSceneTargets |-> << 2, 1 >>]
    /\ delegateParams = TaskParams(FALSE, TRUE, "HdCmpFuncLess")
    /\ delegateRenderTags = << "geometry" >>
    /\ taskSetAlphaToCoverage \in BOOLEAN
    /\ HDX_DISABLE_ALPHA_TO_COVERAGE \in BOOLEAN
    /\ dirtyBits = AllDirty
    /\ taskEdits = 0

TaskSpecNext ==
    \/ \E p \in TaskParamChoices, mark \in BOOLEAN :
          SetTaskParams(p, mark)
    \/ \E t \in RenderTagChoices, mark \in BOOLEAN :
          SetRenderTags(t, mark)
    \/ \E i \in 1..NumSceneTargets, present \in BOOLEAN : SetCamera(i, present)
    \/ \E option, debug \in BOOLEAN : SetAlphaToCoverageSwitches(option, debug)
    \/ \E i \in 1..NumSceneTargets : SetCollection(i, drawTargets[i].collection)
    \/ MarkDrawTargetSetDirty
    \/ Sync
    \/ Prepare
    \/ Execute

TaskSpec == TaskSpecInit /\ [][TaskSpecNext]_vars

---------------------------------------------------------------------------
(* ParamSpec: one draw target, of every depth priority and every bounded     *)
(* resolution, synced with every depth function                             *)

ParamSpecInit ==
    /\ drawTargets =
           << DrawTarget(1, [rootPaths |-> {}, excludePaths |-> {}], TRUE, 1) >>
    /\ drawTargetVersion = 1
    /\ pc = "idle"
    /\ TaskInit
    /\ cameras = {1}
    /\ \E priority \in {HdDepthPriority[k] : k \in 1..Len(HdDepthPriority)} :
          depthPriority = << priority >>
    /\ \E width, height \in 0..MaxResolution :
          resolution = << << width, height >> >>
    /\ \E depthFunc \in {HdCompareFunction[k] :
                            k \in 1..Len(HdCompareFunction)} :
          delegateParams = TaskParams(FALSE, TRUE, depthFunc)
    /\ delegateRenderTags = << "geometry" >>
    /\ taskSetAlphaToCoverage = TRUE
    /\ HDX_DISABLE_ALPHA_TO_COVERAGE = FALSE
    /\ dirtyBits = AllDirty
    /\ taskEdits = 0

ParamSpecNext == Sync \/ Prepare \/ Execute

ParamSpec == ParamSpecInit /\ [][ParamSpecNext]_vars

---------------------------------------------------------------------------
(* RasterSpec: every combination of the depth bias parameters and of the     *)
(* alpha-to-coverage switches, over every set of enabled draw targets       *)

RasterSpecInit ==
    /\ drawTargets \in
           { [i \in 1..NumSceneTargets |->
                 DrawTarget(i, [rootPaths |-> {}, excludePaths |-> {}],
                            es[i], 1)] :
               es \in [1..NumSceneTargets -> BOOLEAN] }
    /\ drawTargetVersion = 1
    /\ pc = "idle"
    /\ TaskInit
    /\ cameras = 1..NumSceneTargets
    /\ depthPriority = [i \in 1..NumSceneTargets |-> "HdDepthPriorityNearest"]
    /\ resolution = [i \in 1..NumSceneTargets |-> << 2, 1 >>]
    /\ \E useDefault, enable \in BOOLEAN :
          delegateParams = TaskParams(useDefault, enable, "HdCmpFuncLess")
    /\ delegateRenderTags = << "geometry" >>
    /\ taskSetAlphaToCoverage \in BOOLEAN
    /\ HDX_DISABLE_ALPHA_TO_COVERAGE \in BOOLEAN
    /\ dirtyBits = AllDirty
    /\ taskEdits = 0

RasterSpecNext == Sync \/ Prepare \/ Execute

RasterSpec == RasterSpecInit /\ [][RasterSpecNext]_vars

---------------------------------------------------------------------------
(* The dependency graph the properties speak of *)

\* X depends on Y: X # Y, Y's id is prefixed by no exclude path of X's
\* collection and by some root path of it
DependsOn(dts, x, y) ==
    /\ x # y
    /\ \A e \in dts[x].collection.excludePaths : ~HasPrefix(dts[y].id, e)
    /\ \E r \in dts[x].collection.rootPaths : HasPrefix(dts[y].id, r)

RECURSIVE DependencyClosure(_, _)
DependencyClosure(dts, S) ==
    LET T == S \cup {y \in 1..Len(dts) : \E x \in S : DependsOn(dts, x, y)}
    IN  IF T = S THEN S ELSE DependencyClosure(dts, T)

\* the draw targets x depends on, directly or through others
TransitiveDependencies(dts, x) ==
    DependencyClosure(dts, {y \in 1..Len(dts) : DependsOn(dts, x, y)})

OnCycle(dts, x) == x \in TransitiveDependencies(dts, x)

Acyclic(dts) == \A x \in 1..Len(dts) : ~OnCycle(dts, x)

\* x lies on a cycle or depends, directly or through others, on one that does
InvolvedInCycle(dts, x) ==
    \/ OnCycle(dts, x)
    \/ \E y \in TransitiveDependencies(dts, x) : OnCycle(dts, y)

HasDependents(dts, y) == \E x \in 1..Len(dts) : DependsOn(dts, x, y)

\* positions of the entries of the draw target with original index x
PositionsOf(entries, x) ==
    {p \in 1..Len(entries) : entries[p].originalIndex = x}

\* x has an entry, y has an entry, and every entry of x precedes every entry of y
Precedes(entries, x, y) ==
    /\ PositionsOf(entries, x) # {}
    /\ PositionsOf(entries, y) # {}
    /\ \A px \in PositionsOf(entries, x), py \in PositionsOf(entries, y) : px < py

\* the entries of the draw targets in S appear in increasing original index
InOriginalOrder(entries, S) ==
    \A p, q \in 1..Len(entries) :
        (/\ p < q
         /\ entries[p].originalIndex \in S
         /\ entries[q].originalIndex \in S)
        => entries[p].originalIndex < entries[q].originalIndex

---------------------------------------------------------------------------
(* Properties of _SortDrawTargets, checked under SortSpec *)

\* C1: for an acyclic dependency graph, whenever X depends on Y the entry of
\* Y is at a strictly smaller position of the result than the entry of X.
C1_TopologicalValidity ==
    (pc = "sorted" /\ Acyclic(unsortedDrawTargets)) =>
        \A x, y \in 1..Len(unsortedDrawTargets) :
            DependsOn(unsortedDrawTargets, x, y) =>
                Precedes(drawTargetEntries, y, x)

\* a chain 1 -> 2 -> 3 given in the reverse of its execution order
C1_Witness ==
    /\ pc = "sorted"
    /\ Len(unsortedDrawTargets) = 3
    /\ Acyclic(unsortedDrawTargets)
    /\ DependsOn(unsortedDrawTargets, 1, 2)
    /\ DependsOn(unsortedDrawTargets, 2, 3)
    /\ drawTargetEntries[1].originalIndex = 3

\* C2: for every input the result holds each input index exactly once, its
\* length is the input's, and the Mismatch coding error is not raised.
C2_Totality ==
    pc = "sorted" =>
        /\ Len(drawTargetEntries) = Len(unsortedDrawTargets)
        /\ \A x \in 1..Len(unsortedDrawTargets) :
               Cardinality(PositionsOf(drawTargetEntries, x)) = 1
        /\ \A p \in 1..Len(drawTargetEntries) :
               drawTargetEntries[p].drawTarget = drawTargetEntries[p].originalIndex
        /\ ~mismatch

\* a 2-cycle with a third draw target downstream of it
C2_Witness ==
    /\ pc = "sorted"
    /\ Len(unsortedDrawTargets) = 3
    /\ \E x, y, z \in 1..3 :
          /\ OnCycle(unsortedDrawTargets, x)
          /\ OnCycle(unsortedDrawTargets, y)
          /\ x # y
          /\ ~OnCycle(unsortedDrawTargets, z)
          /\ DependsOn(unsortedDrawTargets, z, x)
    /\ Len(drawTargetEntries) = 3

\* the empty input: the sort returns at once with an empty result
C2_WitnessEmpty ==
    pc = "sorted" /\ unsortedDrawTargets = << >> /\ drawTargetEntries = << >>

\* C5 (as claimed): hasDependentDrawTargets is true iff some other draw
\* target of the batch depends on the entry's draw target.
C5_FlagIffDependents ==
    pc = "sorted" =>
        \A p \in 1..Len(drawTargetEntries) :
            drawTargetEntries[p].hasDependentDrawTargets
                <=> HasDependents(unsortedDrawTargets,
                                  drawTargetEntries[p].originalIndex)

C7_AcyclicBeforeCyclic ==
    (pc = "sorted" /\ ~Acyclic(unsortedDrawTargets)) =>
        LET n == Len(unsortedDrawTargets)
            cyclic == {x \in 1..n : OnCycle(unsortedDrawTargets, x)}
        IN  /\ \A x \in (1..n) \ cyclic, y \in cyclic :
                  Precedes(drawTargetEntries, x, y)
            /\ InOriginalOrder(drawTargetEntries, cyclic)

\* C7 (amended): every target that neither lies on a cycle nor depends,
\* directly or through others, on a target lying on one precedes every target
\* that does; the latter are in increasing original index.
C7_UninvolvedBeforeInvolved ==
    (pc = "sorted" /\ ~Acyclic(unsortedDrawTargets)) =>
        LET n == Len(unsortedDrawTargets)
            involved == {x \in 1..n : InvolvedInCycle(unsortedDrawTargets, x)}
        IN  /\ \A x \in (1..n) \ involved, y \in involved :
                  Precedes(drawTargetEntries, x, y)
            /\ \A y \in involved : PositionsOf(drawTargetEntries, y) # {}
            /\ InOriginalOrder(drawTargetEntries, involved)

\* a 2-cycle 1 <-> 2 and draw target 3 downstream of it: 3 lies on no cycle
\* and is scheduled after the cycle's members
C7_Witness ==
    /\ pc = "sorted"
    /\ Len(unsortedDrawTargets) = 3
    /\ DependsOn(unsortedDrawTargets, 1, 2)
    /\ DependsOn(unsortedDrawTargets, 2, 1)
    /\ DependsOn(unsortedDrawTargets, 3, 1)
    /\ ~OnCycle(unsortedDrawTargets, 3)
    /\ drawTargetEntries[3].originalIndex = 3

\* the dependencies of x: the draw targets x depends on
DependenciesOf(dts, x) == {y \in 1..Len(dts) : DependsOn(dts, x, y)}

\* what C11 compares of a result: the original indices and the flags, in order
OrderAndFlags(entries) ==
    [p \in 1..Len(entries) |->
        << entries[p].originalIndex, entries[p].hasDependentDrawTargets >>]

\* one collection for every set of dependencies draw target i can have: the
\* choice depends on the dependencies of i in dts alone
CanonicalCollection(dts, i) ==
    CHOOSE c \in Collections :
        DependenciesOf([dts EXCEPT ![i].collection = c], i)
            = DependenciesOf(dts, i)

\* the one vector that stands for all the vectors with the ids, the order and
\* the dependency relation of dts: two vectors with the same ids and the same
\* relation have the same representative
SameRelationRepresentative(dts) ==
    [i \in 1..Len(dts) |-> DrawTarget(i, CanonicalCollection(dts, i), TRUE, 1)]

\* dts with the enable flag of one draw target flipped or its version advanced
SameCollectionVariants(dts) ==
    UNION { { [dts EXCEPT ![i].enabled = ~@],
              [dts EXCEPT ![i].version = @ + 1] } : i \in 1..Len(dts) }

\* C11: the result of the sort (original indices and hasDependentDrawTargets
\* flags, in order) depends only on the input order and the dependency
\* relation: sorting the same vector again gives the same result, and so does
\* sorting the representative of the vectors with the same ids, order and
\* dependency relation, or the vector with another enable flag or version.
C11_Stability ==
    pc = "sorted" =>
        /\ OrderAndFlags(_SortDrawTargets(unsortedDrawTargets).result)
               = OrderAndFlags(drawTargetEntries)
        /\ \A i \in 1..Len(unsortedDrawTargets) :
               DependenciesOf(SameRelationRepresentative(unsortedDrawTargets), i)
                   = DependenciesOf(unsortedDrawTargets, i)
        /\ OrderAndFlags(
               _SortDrawTargets(
                   SameRelationRepresentative(unsortedDrawTargets)).result)
               = OrderAndFlags(drawTargetEntries)
        /\ \A other \in SameCollectionVariants(unsortedDrawTargets) :
               OrderAndFlags(_SortDrawTargets(other).result)
                   = OrderAndFlags(drawTargetEntries)

\* two of the three draw targets have a collection other than the one of the
\* representative of their relation; draw target 1 depends on draw target 2,
\* which is scheduled first and flagged
C11_Witness ==
    /\ pc = "sorted"
    /\ Len(unsortedDrawTargets) = 3
    /\ DependenciesOf(unsortedDrawTargets, 1) = {2}
    /\ DependenciesOf(unsortedDrawTargets, 3) = {1, 2}
    /\ unsortedDrawTargets[1].collection
           # SameRelationRepresentative(unsortedDrawTargets)[1].collection
    /\ unsortedDrawTargets[3].collection
           # SameRelationRepresentative(unsortedDrawTargets)[3].collection
    /\ OrderAndFlags(drawTargetEntries)
           = << <<2, TRUE>>, <<1, TRUE>>, <<3, FALSE>> >>

\* C19: two draw targets with the same set of dependencies appear in the
\* result in increasing original index; the draw targets with no dependency
\* come first, in original order, before every draw target that has one.
C19_TieBreak ==
    pc = "sorted" =>
        LET n == Len(unsortedDrawTargets)
            independent == {x \in 1..n :
                               DependenciesOf(unsortedDrawTargets, x) = {}}
        IN  /\ \A x, y \in 1..n :
                  (/\ x < y
                   /\ DependenciesOf(unsortedDrawTargets, x)
                          = DependenciesOf(unsortedDrawTargets, y))
                  => Precedes(drawTargetEntries, x, y)
            /\ \A p \in 1..Cardinality(independent) :
                  drawTargetEntries[p].originalIndex \in independent
            /\ InOriginalOrder(drawTargetEntries, independent)
            /\ \A x \in independent, y \in (1..n) \ independent :
                  Precedes(drawTargetEntries, x, y)

\* draw targets 1 and 2 both depend on draw target 3 alone: 3 comes first,
\* then 1 and 2 in their original order
C19_Witness ==
    /\ pc = "sorted"
    /\ Len(unsortedDrawTargets) = 3
    /\ DependenciesOf(unsortedDrawTargets, 1) = {3}
    /\ DependenciesOf(unsortedDrawTargets, 2) = {3}
    /\ OrderAndFlags(drawTargetEntries)
           = << <<3, TRUE>>, <<1, FALSE>>, <<2, FALSE>> >>


---------------------------------------------------------------------------
(* Properties of the frames, checked under Spec *)

\* the draw targets of the passes, in stored order
StoredOrder == [p \in 1..Len(_renderPassesInfo) |-> _renderPassesInfo[p].target]

\* the entries of the last sort whose draw target was enabled at that rebuild
EnabledEntries ==
    LET Enabled(entry) == unsortedDrawTargets[entry.drawTarget].enabled
    IN  SelectSeq(drawTargetEntries, Enabled)

\* positions in glCalls of the calls op on draw target t
CallsOf(op, t) ==
    {k \in 1..Len(glCalls) : glCalls[k] = [op |-> op, target |-> t]}

\* the calls the draw loop is to issue for the draw targets of order, a pass
\* being resolved exactly when some draw target of dts depends on its target
RECURSIVE ExpectedCalls(_, _)
ExpectedCalls(dts, order) ==
    IF order = << >> THEN << >>
    ELSE LET t == Head(order) IN
         << [op |-> "Bind", target |-> t],
            [op |-> "Execute", target |-> t],
            [op |-> "Unbind", target |-> t] >>
         \o (IF HasDependents(dts, t)
             THEN << [op |-> "Resolve", target |-> t] >> ELSE << >>)
         \o ExpectedCalls(dts, Tail(order))

\* C3: after a Sync that rebuilt the entries from an acyclic graph, Execute
\* issues, entry by entry in stored order, bind/draw/unbind and then a resolve
\* exactly when some other draw target of the batch depends on the entry; for
\* B depending on A the draw of A, the resolve of A and the draw of B come in
\* that order.
C3_ResolveOrdering ==
    (pc = "executed" /\ syncPath = "stale" /\ Acyclic(drawTargets)) =>
        /\ glCalls = ExpectedCalls(drawTargets, StoredOrder)
        /\ \A a, b \in 1..Len(drawTargets) :
              (/\ DependsOn(drawTargets, b, a)
               /\ drawTargets[a].enabled
               /\ drawTargets[b].enabled)
              => \E i, j, k \in 1..Len(glCalls) :
                    /\ i < j /\ j < k
                    /\ glCalls[i] = [op |-> "Execute", target |-> a]
                    /\ glCalls[j] = [op |-> "Resolve", target |-> a]
                    /\ glCalls[k] = [op |-> "Execute", target |-> b]

\* draw target 1 depends on draw target 2, which is drawn and resolved first;
\* draw target 1 is drawn last and not resolved
C3_Witness ==
    /\ pc = "executed"
    /\ syncPath = "stale"
    /\ Acyclic(drawTargets)
    /\ DependsOn(drawTargets, 1, 2)
    /\ StoredOrder = << 2, 1 >>
    /\ CallsOf("Resolve", 2) # {}
    /\ CallsOf("Resolve", 1) = {}

\* C4 (as claimed): in every Execute, for entries T and U with U ordered
\* after T and U depending on T, a resolve of T's surface is issued after T's
\* draw and before U's draw, cycles in the graph included.
C4_ResolveBeforeConsumer ==
    pc = "executed" =>
        \A p, q \in 1..Len(StoredOrder) :
            (p < q /\ DependsOn(drawTargets, StoredOrder[q], StoredOrder[p]))
            => \E i, j, k \in 1..Len(glCalls) :
                  /\ i < j /\ j < k
                  /\ glCalls[i] = [op |-> "Execute", target |-> StoredOrder[p]]
                  /\ glCalls[j] = [op |-> "Resolve", target |-> StoredOrder[p]]
                  /\ glCalls[k] = [op |-> "Execute", target |-> StoredOrder[q]]

\* what C8 says of a step from the passes (infos, passes) to (infos', passes')
\* of a Sync that found the draw-target-set version unchanged
RefreshedInIsolation ==
    /\ UNCHANGED sortVars
    /\ Len(_renderPassesInfo') = Len(_renderPassesInfo)
    /\ Len(_renderPasses') = Len(_renderPasses)
    /\ \A p \in 1..Len(_renderPassesInfo) :
          LET t == _renderPassesInfo[p].target
              live == drawTargets[t].version
          IN  /\ _renderPassesInfo'[p].target = t
              /\ _renderPasses'[p].hasDependentDrawTargets
                     = _renderPasses[p].hasDependentDrawTargets
              /\ IF _renderPassesInfo[p].version # live
                 THEN /\ _renderPasses'[p].drawTarget
                             = [target |-> t, version |-> live]
                      /\ _renderPassesInfo'[p].version = live
                 ELSE /\ _renderPasses'[p] = _renderPasses[p]
                      /\ _renderPassesInfo'[p] = _renderPassesInfo[p]

C9_EntrySetInvariant ==
    /\ drawTargetEntries = _SortDrawTargets(unsortedDrawTargets).result
    /\ Len(_renderPassesInfo) = Len(EnabledEntries)
    /\ Len(_renderPasses) = Len(EnabledEntries)
    /\ \A p \in 1..Len(EnabledEntries) :
          LET t == EnabledEntries[p].drawTarget IN
          /\ _renderPassesInfo[p].target = t
          /\ _renderPasses[p].drawTarget.target = t
          /\ _renderPasses[p].hasDependentDrawTargets
                 = EnabledEntries[p].hasDependentDrawTargets
          /\ _renderPassesInfo[p].version >= unsortedDrawTargets[t].version
          /\ _renderPassesInfo[p].version <= drawTargets[t].version
          /\ _renderPasses[p].drawTarget.version = _renderPassesInfo[p].version
    /\ \A p, q \in 1..Len(StoredOrder) : p # q => StoredOrder[p] # StoredOrder[q]
    /\ \A p \in 1..Len(StoredOrder) :
          unsortedDrawTargets[StoredOrder[p]].enabled
    /\ \A t \in 1..Len(unsortedDrawTargets) :
          unsortedDrawTargets[t].enabled
              => \E p \in 1..Len(StoredOrder) : StoredOrder[p] = t

\* draw target 1 was disabled at the rebuild and has been enabled since: the
\* one pass is draw target 2's
C9_Witness ==
    /\ pc = "synced"
    /\ syncPath = "fresh"
    /\ ~unsortedDrawTargets[1].enabled
    /\ drawTargets[1].enabled
    /\ StoredOrder = << 2 >>

\* C10 (as claimed): after a Sync, if the graph over the draw targets'
\* current collections is acyclic, the stored order of the passes is a
\* topological order of it.
C10_OrderFollowsCurrentGraph ==
    (pc = "synced" /\ Acyclic(drawTargets)) =>
        \A p, q \in 1..Len(StoredOrder) :
            DependsOn(drawTargets, StoredOrder[p], StoredOrder[q]) => q < p

\* C10 (amended): in every state, if the graph over the collections the draw
\* targets had at the last full rebuild is acyclic, the stored order of the
\* passes is a topological order of that graph.
C10_OrderFollowsRebuildGraph ==
    Acyclic(unsortedDrawTargets) =>
        \A p, q \in 1..Len(StoredOrder) :
            DependsOn(unsortedDrawTargets, StoredOrder[p], StoredOrder[q])
                => q < p

\* the passes were ordered for a graph in which draw target 1 depends on draw
\* target 2; a later Sync kept the order though draw target 1's collection
\* has changed
C10_Witness ==
    /\ pc = "synced"
    /\ syncPath = "fresh"
    /\ Acyclic(unsortedDrawTargets)
    /\ DependsOn(unsortedDrawTargets, 1, 2)
    /\ StoredOrder = << 2, 1 >>
    /\ drawTargets[1].collection # unsortedDrawTargets[1].collection

---------------------------------------------------------------------------
(* Properties of Execute's raster state, checked under RasterSpec *)

\* C12: when Execute returns, whatever the depth bias parameters, the
\* alpha-to-coverage flag, the state the context was found in and the number
\* of entries, polygon offset fill, sample alpha to coverage and program
\* point size are disabled and the front face winding is CCW.
C12_RasterToggleSymmetry ==
    pc = "executed" =>
        /\ ~gl.GL_POLYGON_OFFSET_FILL
        /\ ~gl.GL_SAMPLE_ALPHA_TO_COVERAGE
        /\ ~gl.GL_PROGRAM_POINT_SIZE
        /\ gl.frontFace = "GL_CCW"

\* no entry; the task left polygon offset fill as it found it, enabled, for
\* the draw loop (depthBiasUseDefault), and alpha to coverage was off
C12_Witness ==
    /\ pc = "executed"
    /\ Len(_renderPassesInfo) = 0
    /\ _depthBiasUseDefault
    /\ _depthBiasEnable
    /\ ~_enableSampleAlphaToCoverage
    /\ glInLoop.GL_POLYGON_OFFSET_FILL
    /\ glInLoop.frontFace = "GL_CW"
    /\ ~gl.GL_POLYGON_OFFSET_FILL

\* several entries; the task enabled polygon offset fill and alpha to coverage
C12_WitnessEntries ==
    /\ pc = "executed"
    /\ Len(_renderPassesInfo) = NumSceneTargets
    /\ ~_depthBiasUseDefault
    /\ _depthBiasEnable
    /\ glInLoop.GL_POLYGON_OFFSET_FILL
    /\ glInLoop.GL_SAMPLE_ALPHA_TO_COVERAGE
    /\ glInLoop.GL_PROGRAM_POINT_SIZE
    /\ gl = [GLDefaults EXCEPT !.polygonOffset = glInLoop.polygonOffset]

---------------------------------------------------------------------------
(* Properties of the render pass state, checked under ParamSpec *)

\* the depth function the claim gives for the farthest priority
FarthestDepthFunc(requested) ==
    CASE requested = "HdCmpFuncNever"    -> "HdCmpFuncNever"
      [] requested = "HdCmpFuncLess"     -> "HdCmpFuncGEqual"
      [] requested = "HdCmpFuncEqual"    -> "HdCmpFuncEqual"
      [] requested = "HdCmpFuncLEqual"   -> "HdCmpFuncGreater"
      [] requested = "HdCmpFuncGreater"  -> "HdCmpFuncLEqual"
      [] requested = "HdCmpFuncNotEqual" -> "HdCmpFuncNotEqual"
      [] requested = "HdCmpFuncGEqual"   -> "HdCmpFuncLess"
      [] requested = "HdCmpFuncAlways"   -> "HdCmpFuncAlways"

\* C13: the depth function Sync sets on an entry's render pass state is the
\* task's depth function for a draw target of nearest priority, and for one
\* of farthest priority never, greater-or-equal, equal, greater,
\* less-or-equal, not-equal, less, always for never, less, equal,
\* less-or-equal, greater, not-equal, greater-or-equal, always.
C13_DepthFuncTable ==
    (pc = "synced" /\ Len(renderPassState) = 1) =>
        /\ renderPassState[1].prepared
        /\ renderPassState[1].depthFunc =
               IF depthPriority[1] = "HdDepthPriorityNearest"
               THEN _depthFunc
               ELSE FarthestDepthFunc(_depthFunc)

\* less is resolved to greater-or-equal for a draw target of farthest priority
C13_Witness ==
    /\ pc = "synced"
    /\ depthPriority[1] = "HdDepthPriorityFarthest"
    /\ _depthFunc = "HdCmpFuncLess"
    /\ renderPassState[1].depthFunc = "HdCmpFuncGEqual"

\* greater-or-equal is kept for a draw target of nearest priority
C13_WitnessNearest ==
    /\ pc = "synced"
    /\ depthPriority[1] = "HdDepthPriorityNearest"
    /\ _depthFunc = "HdCmpFuncGEqual"
    /\ renderPassState[1].depthFunc = "HdCmpFuncGEqual"

\* C14 (as claimed): the aspect Sync conforms the projection to is the ratio
\* width / height of the draw target's resolution when the height is not 0
\* (aspect * height = width), and 1 when the height is 0.
C14_AspectIsRatio ==
    (pc = "synced" /\ Len(renderPassState) = 1) =>
        /\ renderPassState[1].prepared
        /\ IF resolution[1][2] # 0
           THEN renderPassState[1].aspect * resolution[1][2] = resolution[1][1]
           ELSE renderPassState[1].aspect = 1

---------------------------------------------------------------------------
(* Properties of Sync's end and early returns, checked under TaskSpec *)

\* a step of Sync
SyncStep == pc \in {"idle", "executed"} /\ pc' = "synced"

\* the render pass state of the entry at position p was built by this Sync:
\* it holds the task's parameters as this Sync left them and the viewport of
\* the entry's draw target, and was prepared
RebuiltThisFrame(p) ==
    LET t == _renderPassesInfo'[p].target IN
    /\ renderPassState'[p].overrideColor = _overrideColor'
    /\ renderPassState'[p].wireframeColor = _wireframeColor'
    /\ renderPassState'[p].lightingEnabled = _enableLighting'
    /\ renderPassState'[p].alphaThreshold = _alphaThreshold'
    /\ renderPassState'[p].cullStyle = _cullStyle'
    /\ renderPassState'[p].depthFunc =
           IF depthPriority[t] = "HdDepthPriorityNearest"
           THEN _depthFunc' ELSE FarthestDepthFunc(_depthFunc')
    /\ renderPassState'[p].viewport = resolution[t]
    /\ renderPassState'[p].prepared

\* C15 (as claimed): if the camera of the entry at position k is absent, the
\* entries before k have their render state rebuilt from this frame's data and
\* every entry from k on keeps the render state it had before this Sync, on
\* the Fresh path and on the Stale path alike.
C15_LaterEntriesKeepState ==
    [][(SyncStep /\ missingCamera' # 0) =>
          /\ \A p \in 1..(missingCamera' - 1) : RebuiltThisFrame(p)
          /\ \A p \in missingCamera'..Len(renderPassState') :
                p <= Len(renderPassState)
                    => renderPassState'[p] = renderPassState[p]
      ]_vars

\* C15 (amended): the entries before k are rebuilt; on the Fresh path every
\* entry from k on keeps the render state it had, on the Stale path every
\* entry from k on has the render state the rebuild constructed, with nothing
\* set on it.
C15_MissingCameraFault ==
    [][(SyncStep /\ missingCamera' # 0) =>
          /\ missingCamera' \in 1..Len(_renderPassesInfo')
          /\ _renderPassesInfo'[missingCamera'].target \notin cameras
          /\ \A p \in 1..(missingCamera' - 1) :
                _renderPassesInfo'[p].target \in cameras
          /\ Len(renderPassState') = Len(_renderPassesInfo')
          /\ \A p \in 1..(missingCamera' - 1) : RebuiltThisFrame(p)
          /\ \A p \in missingCamera'..Len(renderPassState') :
                IF syncPath' = "fresh"
                THEN renderPassState'[p] = renderPassState[p]
                ELSE renderPassState'[p] = NewRenderPassState
      ]_vars

\* Fresh path: the camera of the second entry is missing; the first entry has
\* this frame's depth function, the second the one of the frame before
C15_Witness ==
    /\ pc = "synced"
    /\ syncPath = "fresh"
    /\ missingCamera = 2
    /\ _depthFunc = "HdCmpFuncGreater"
    /\ renderPassState[1].depthFunc = "HdCmpFuncLEqual"
    /\ renderPassState[2].depthFunc = "HdCmpFuncGEqual"
    /\ renderPassState[2].prepared

\* Stale path: the camera of the second entry is missing; the first entry is
\* built, the second is as constructed
C15_WitnessStale ==
    /\ pc = "synced"
    /\ syncPath = "stale"
    /\ _currentDrawTargetSetVersion = 2
    /\ missingCamera = 2
    /\ renderPassState[1].prepared
    /\ renderPassState[2] = NewRenderPassState

\* C16 (as claimed): a Sync that meets a missing camera still sets the
\* alpha-to-coverage flag for this frame and leaves all dirty bits Clean.
C16_SyncEndsAfterFault ==
    [][(SyncStep /\ missingCamera' # 0) =>
          /\ _enableSampleAlphaToCoverage' = AlphaToCoverage
          /\ dirtyBits' = {}
      ]_vars

\* C16 (amended): a Sync that meets a missing camera returns there: what
\* precedes the loop has taken effect (the parameters and render tags that
\* were dirty, the cache step, the publication of the passes), the
\* alpha-to-coverage flag and the dirty bits are as they were.  A Sync whose
\* loop runs to its end sets the flag and clears the bits.
C16_FaultReturnsFromSync ==
    [][SyncStep =>
          /\ (missingCamera' # 0) =>
                /\ UNCHANGED <<_enableSampleAlphaToCoverage, dirtyBits>>
                /\ "drawTargetRenderPasses" \in ctx'
                /\ _currentDrawTargetSetVersion' = drawTargetVersion
                /\ "DirtyParams" \in dirtyBits => GlobalParams' = delegateParams
                /\ "DirtyRenderTags" \in dirtyBits
                       => _renderTags' = delegateRenderTags
          /\ (missingCamera' = 0 /\ syncPath' # "aborted") =>
                /\ _enableSampleAlphaToCoverage'
                       = ~(taskSetAlphaToCoverage
                           /\ HDX_DISABLE_ALPHA_TO_COVERAGE)
                /\ dirtyBits' = {}
      ]_vars

\* the camera of the first entry is missing: the parameters were fetched, the
\* bits are still dirty, and the flag is on though both switches are set
C16_Witness ==
    /\ pc = "synced"
    /\ missingCamera = 1
    /\ dirtyBits = AllDirty
    /\ GlobalParams = delegateParams
    /\ taskSetAlphaToCoverage
    /\ HDX_DISABLE_ALPHA_TO_COVERAGE
    /\ _enableSampleAlphaToCoverage

\* C17 (as claimed): a Sync with neither the parameter bit nor the render
\* tags bit set leaves the global parameters, the alpha-to-coverage flag and
\* the render tags unchanged; with the parameter bit alone the render tags are
\* unchanged, with the render tags bit alone the parameters are unchanged.
C17_RefreshedOnlyWhenDirty ==
    [][SyncStep =>
          /\ dirtyBits = {} =>
                UNCHANGED <<paramVars, _enableSampleAlphaToCoverage,
                            _renderTags>>
          /\ dirtyBits = {"DirtyParams"} => UNCHANGED _renderTags
          /\ dirtyBits = {"DirtyRenderTags"} => UNCHANGED paramVars
      ]_vars

\* C17 (amended): a Sync leaves the global parameters unchanged unless the
\* parameter bit is set, and the render tags unchanged unless the render tags
\* bit is set.  The alpha-to-coverage flag follows no bit: every Sync that
\* runs to its end sets it from the two switches, every other Sync leaves it.
C17_ParamsAndTagsOnlyWhenDirty ==
    [][SyncStep =>
          /\ "DirtyParams" \notin dirtyBits => UNCHANGED paramVars
          /\ "DirtyRenderTags" \notin dirtyBits => UNCHANGED _renderTags
          /\ IF syncPath' # "aborted" /\ missingCamera' = 0
             THEN _enableSampleAlphaToCoverage'
                      = ~(taskSetAlphaToCoverage
                          /\ HDX_DISABLE_ALPHA_TO_COVERAGE)
             ELSE UNCHANGED _enableSampleAlphaToCoverage
      ]_vars

\* a Sync ran to its end with no bit set: the task has the parameters and the
\* render tags of an earlier Sync, not the ones the delegate holds now, and
\* the flag the switches give now
C17_Witness ==
    /\ pc = "synced"
    /\ syncPath = "fresh"
    /\ missingCamera = 0
    /\ delegateParams = TaskParams(TRUE, FALSE, "HdCmpFuncGreater")
    /\ GlobalParams = TaskParams(FALSE, TRUE, "HdCmpFuncLess")
    /\ delegateRenderTags = << "geometry", "guide" >>
    /\ _renderTags = << "geometry" >>
    /\ ~_enableSampleAlphaToCoverage

\* C18 (as claimed): in every Execute sample alpha to coverage is enabled
\* during the draw loop if the debug switch was off at the Sync before that
\* Execute.  (No switch changes between a Sync and the Execute of its frame.)
C18_AlphaToCoverageForcedOn ==
    (pc = "executed" /\ ~HDX_DISABLE_ALPHA_TO_COVERAGE) =>
        glInLoop.GL_SAMPLE_ALPHA_TO_COVERAGE

\* C18 (amended): in every Execute sample alpha to coverage is, during the
\* draw loop, what the flag says; the flag is on when the task is created, is
\* on after a Sync that ran to its end with the debug switch off, is off only
\* after a Sync that ran to its end with the debug switch and the delegate's
\* option both on, and changes in no other step.
C18_AlphaToCoverageFollowsFlag ==
    /\ _enableSampleAlphaToCoverage = TRUE
    /\ [](pc = "executed" =>
             glInLoop.GL_SAMPLE_ALPHA_TO_COVERAGE
                 = _enableSampleAlphaToCoverage)
    /\ [][IF SyncStep /\ syncPath' # "aborted" /\ missingCamera' = 0
          THEN /\ ~HDX_DISABLE_ALPHA_TO_COVERAGE
                     => _enableSampleAlphaToCoverage'
               /\ ~_enableSampleAlphaToCoverage'
                     => (HDX_DISABLE_ALPHA_TO_COVERAGE
                         /\ taskSetAlphaToCoverage)
          ELSE UNCHANGED _enableSampleAlphaToCoverage
         ]_vars

\* the debug switch is off, the Sync of this frame returned at a missing
\* camera, and the draw loop ran with alpha to coverage off
C18_Witness ==
    /\ pc = "executed"
    /\ ~HDX_DISABLE_ALPHA_TO_COVERAGE
    /\ missingCamera # 0
    /\ ~_enableSampleAlphaToCoverage
    /\ ~glInLoop.GL_SAMPLE_ALPHA_TO_COVERAGE

\* C20: the cached set version starts at 0; a Sync rebuilds (sorts and
\* creates the entries anew) exactly when it reaches the cache step with the
\* live set version different from the cached one; after a Sync that reached
\* the cache step the cached version is the live one; a Sync that follows
\* such a Sync with no scene change in between does not rebuild.
C20_SetVersionCache ==
    /\ _currentDrawTargetSetVersion = 0
    /\ [][SyncStep =>
             /\ syncPath' = "stale"
                    <=> (/\ syncPath' # "aborted"
                         /\ _currentDrawTargetSetVersion # drawTargetVersion)
             /\ syncPath' = "stale" =>
                    /\ unsortedDrawTargets' = drawTargets
                    /\ Len(_renderPassesInfo') =
                           Cardinality({t \in 1..Len(drawTargets) :
                                           drawTargets[t].enabled})
                    /\ \A p \in 1..Len(_renderPassesInfo') :
                          _renderPassesInfo'[p].version =
                              drawTargets[_renderPassesInfo'[p].target].version
             /\ syncPath' = "fresh" =>
                    /\ UNCHANGED sortVars
                    /\ Len(_renderPassesInfo') = Len(_renderPassesInfo)
             /\ syncPath' # "aborted" =>
                    _currentDrawTargetSetVersion' = drawTargetVersion
             /\ syncPath' = "aborted" =>
                    UNCHANGED <<_currentDrawTargetSetVersion, sortVars,
                                _renderPassesInfo, _renderPasses>>
         ]_vars
    /\ [][(SyncStep /\ pc = "executed" /\ syncPath \in {"stale", "fresh"})
             => syncPath' # "stale"
         ]_vars

\* the set was marked dirty, a Sync rebuilt for version 2, and the next Sync
\* found the version unchanged
C20_Witness ==
    /\ pc = "synced"
    /\ syncPath = "fresh"
    /\ _currentDrawTargetSetVersion = 2
    /\ drawTargetVersion = 2
    /\ Len(_renderPassesInfo) = NumSceneTargets

\* C21: a Sync called with the parameter bit set whose parameter fetch fails
\* leaves the global parameters, the render tags, the cached set version, the
\* entries with their cached versions and render states, the passes, the
\* alpha-to-coverage flag, the dirty bits and the task context as they were.
\* Every other Sync publishes the passes into the task context.
C21_ParamFetchFailure ==
    [][SyncStep =>
          IF "DirtyParams" \in dirtyBits /\ delegateParams = NoParams
          THEN UNCHANGED <<paramVars, _renderTags,
                           _currentDrawTargetSetVersion, _renderPassesInfo,
                           _renderPasses, renderPassState,
                           _enableSampleAlphaToCoverage, dirtyBits, ctx>>
          ELSE "drawTargetRenderPasses" \in ctx'
      ]_vars

\* the first Sync of the task failed to fetch the parameters: the render tags
\* are dirty and not fetched, the draw target set is not looked at, nothing
\* is published
C21_Witness ==
    /\ pc = "synced"
    /\ syncPath = "aborted"
    /\ dirtyBits = AllDirty
    /\ delegateParams = NoParams
    /\ _renderTags # delegateRenderTags
    /\ _currentDrawTargetSetVersion = 0
    /\ _renderPassesInfo = << >>
    /\ ctx = {}

\* a later Sync failed to fetch the parameters: the task keeps the entries,
\* the parameters and the set version of the frame before though the set was
\* marked dirty
C21_WitnessLaterFrame ==
    /\ pc = "synced"
    /\ syncPath = "aborted"
    /\ dirtyBits = {"DirtyParams"}
    /\ Len(_renderPassesInfo) = NumSceneTargets
    /\ "drawTargetRenderPasses" \in ctx
    /\ _overrideColor = "red"
    /\ _currentDrawTargetSetVersion = 1
    /\ drawTargetVersion = 2

---------------------------------------------------------------------------
(* Properties of Prepare and Execute, checked under TaskSpec *)

\* the draw targets of the calls op of a call sequence, in the order of the
\* calls
TargetsOf(calls, op) ==
    LET IsOp(call) == call.op = op
        selected == SelectSeq(calls, IsOp)
    IN  [k \in 1..Len(selected) |-> selected[k].target]

\* the entries, the passes, the cached set version and the global parameters
\* of the task
Schedule ==
    <<_renderPassesInfo, _renderPasses, _currentDrawTargetSetVersion,
      paramVars>>

\* C22: Prepare and Execute leave the entries (their number, order, targets
\* and cached versions), the passes (their hasDependentDrawTargets flags), the
\* cached set version and the global parameters unchanged; Prepare prepares
\* and Execute binds, draws and unbinds the pass of every entry exactly once,
\* in stored order, whether the preceding Sync built the entry's render state
\* or not.
C22_ScheduleUnchanged ==
    /\ [][(pc = "synced" /\ pc' = "prepared") =>
              /\ UNCHANGED Schedule
              /\ TargetsOf(prepareCalls', "Prepare") = StoredOrder
              /\ Len(prepareCalls') = Len(_renderPassesInfo)
         ]_vars
    /\ [][(pc = "prepared" /\ pc' = "executed") =>
              /\ UNCHANGED Schedule
              /\ TargetsOf(glCalls', "Bind") = StoredOrder
              /\ TargetsOf(glCalls', "Execute") = StoredOrder
              /\ TargetsOf(glCalls', "Unbind") = StoredOrder
              /\ \A k \in 1..Len(glCalls') :
                    glCalls'[k].op = "Execute" =>
                        /\ k > 1 /\ k < Len(glCalls')
                        /\ glCalls'[k - 1] =
                               [op |-> "Bind", target |-> glCalls'[k].target]
                        /\ glCalls'[k + 1] =
                               [op |-> "Unbind", target |-> glCalls'[k].target]
         ]_vars

\* the Sync of the frame returned at the camera of the first entry and built
\* no render state; both entries were prepared and drawn, in stored order
C22_Witness ==
    /\ pc = "executed"
    /\ syncPath = "stale"
    /\ missingCamera = 1
    /\ Len(_renderPassesInfo) = NumSceneTargets
    /\ \A p \in 1..Len(renderPassState) : ~renderPassState[p].prepared
    /\ TargetsOf(prepareCalls, "Prepare") = StoredOrder
    /\ TargetsOf(glCalls, "Execute") = StoredOrder

=============================================================================
